---- MODULE Spec2Model ----
(***************************************************************************)
(* Model of the receipt pipeline's tabular sink (src/src/csv_writer.py)    *)
(* and of its orchestrator (src/src/main.py).                              *)
(*                                                                         *)
(* The sink file is a sequence of lines.  A line is the text one           *)
(* csv.writer call hands to the file object, with the call that produced   *)
(* it (owner, a history tag).  Text is a sequence of tokens: the special   *)
(* characters of the csv dialect are tokens of their own, a run of         *)
(* ordinary characters is one token.  The io layer of CPython keeps whole  *)
(* lines in its buffers (csv hands each line over in one write(), and the  *)
(* buffers are flushed before a line that does not fit is added), and the  *)
(* file is opened with O_APPEND, so a flush appends whole lines in one     *)
(* step.                                                                   *)
(***************************************************************************)
EXTENDS Integers, Sequences, FiniteSets, TLC

\* ------------------------------------------------------------- bounds
NCalls == 2     \* concurrent callers of the sink
BufCap == 1     \* lines the io buffer of one open file holds before it flushes
MaxStr == 2     \* tokens in a field value of the round-trip inputs

Calls == 1..NCalls

\* ------------------------------------------------------------- tokens
COMMA == ","
DQ    == "dq"           \* the quote character
CR    == "cr"
LF    == "lf"
SLASH == "/"
BAD   == "surrogate"    \* a character utf-8 cannot encode
NULL  == <<"None">>     \* Python's None (no text value equals it)
Now   == <<"now">>      \* datetime.now().isoformat()

Headers == <<"date", "start_time", "end_time", "total", "source_file", "processed_at">>

HeaderSet == {Headers[i] : i \in 1..Len(Headers)}

\* ----------------------------------------------------- row preparation
\* row.get(k, None)
Get(row, k) == IF k \in DOMAIN row THEN row[k] ELSE NULL

\* Python truthiness of a text-or-None value
Truthy(v) == v # NULL /\ v # <<>>

\* variant: a writer that never stamps
StampNever(row) == row

\* lines 44-46: processed_at is set when the key is missing or its value falsy
Stamp(row) ==
  IF "processed_at" \notin DOMAIN row \/ ~Truthy(row["processed_at"])
  THEN [k \in DOMAIN row \cup {"processed_at"} |->
          IF k = "processed_at" THEN Now ELSE row[k]]
  ELSE row

StampAll(rs) == [i \in 1..Len(rs) |-> Stamp(rs[i])]

\* variant: a writer that drops the columns of missing fields
CleanRowPresentOnly(row) ==
  SelectSeq([i \in 1..Len(Headers) |-> Get(row, Headers[i])], LAMBDA v : v # NULL)

\* lines 63-65 and DictWriter._dict_to_list: the six values in header order
CleanRow(row) == [i \in 1..Len(Headers) |-> Get(row, Headers[i])]

\* the header as a record of six one-token fields (DictWriter.writeheader)
HeaderFields == [i \in 1..Len(Headers) |-> <<Headers[i]>>]

\* ------------------------------------------------------- csv encoding
\* csv.writer: None is written as the empty string
Str(v) == IF v = NULL THEN <<>> ELSE v

\* QUOTE_MINIMAL: delimiter, quote character or a character of the line terminator
NeedsQuote(s) == \E i \in 1..Len(s) : s[i] \in {COMMA, DQ, CR, LF}

RECURSIVE DoubleQuotes(_)
DoubleQuotes(s) ==
  IF s = <<>> THEN <<>>
  ELSE (IF Head(s) = DQ THEN <<DQ, DQ>> ELSE <<Head(s)>>) \o DoubleQuotes(Tail(s))

EncodeField(v) ==
  LET s == Str(v)
  IN  IF NeedsQuote(s) THEN <<DQ>> \o DoubleQuotes(s) \o <<DQ>> ELSE s

RECURSIVE JoinFields(_)
JoinFields(fs) ==
  IF fs = <<>> THEN <<>>
  ELSE IF Len(fs) = 1 THEN EncodeField(fs[1])
  ELSE EncodeField(fs[1]) \o <<COMMA>> \o JoinFields(Tail(fs))

\* one record as the text csv.writer writes: fields, delimiter, "\r\n"
EncodeLine(fs) == JoinFields(fs) \o <<CR, LF>>

\* TextIOWrapper.write encodes the whole line first: a lone surrogate raises
Encodable(fs) == \A i \in 1..Len(fs) : \A j \in 1..Len(Str(fs[i])) : Str(fs[i])[j] # BAD

\* -------------------------------------------------------- csv decoding
\* open(csv_path, 'r') without newline='': "\r\n" and a lone "\r" are read as "\n"
RECURSIVE UniversalNewlines(_)
UniversalNewlines(t) ==
  IF t = <<>> THEN <<>>
  ELSE IF Head(t) = CR
       THEN <<LF>> \o UniversalNewlines(IF Len(t) >= 2 /\ t[2] = LF
                                          THEN Tail(Tail(t)) ELSE Tail(t))
       ELSE <<Head(t)>> \o UniversalNewlines(Tail(t))

\* variant: a reader that opens the file with newline=''
NoTranslation(t) == t

\* the text read_csv's file object hands on (line 88)
ReadText(t) == UniversalNewlines(t)

\* iteration over the file object: a chunk ends after each "\n"
RECURSIVE SplitLines(_, _)
SplitLines(t, cur) ==
  IF t = <<>> THEN (IF cur = <<>> THEN <<>> ELSE <<cur>>)
  ELSE IF Head(t) = LF THEN <<Append(cur, LF)>> \o SplitLines(Tail(t), <<>>)
  ELSE SplitLines(Tail(t), Append(cur, Head(t)))

\* csv.reader's state machine on the characters of one chunk, then the end of
\* the chunk (excel dialect, not strict); the value is <<state, field, fields>>
RECURSIVE ParseChars(_, _, _, _)
ParseChars(t, st, fld, fs) ==
  IF st = "error" THEN <<st, fld, fs>>
  ELSE IF t = <<>> THEN
    CASE st \in {"start_field", "in_field", "quote_in_quoted"}
           -> <<"start_record", <<>>, Append(fs, fld)>>
      [] st = "in_quoted" -> <<st, fld, fs>>
      [] OTHER -> <<"start_record", fld, fs>>
  ELSE
    LET c  == Head(t)
        r  == Tail(t)
        nl == c \in {CR, LF}
    IN  CASE st = "start_record" /\ nl -> ParseChars(r, "eat_crnl", fld, fs)
          [] st \in {"start_record", "start_field"} /\ ~nl ->
               IF c = DQ THEN ParseChars(r, "in_quoted", fld, fs)
               ELSE IF c = COMMA THEN ParseChars(r, "start_field", <<>>, Append(fs, fld))
               ELSE ParseChars(r, "in_field", Append(fld, c), fs)
          [] st = "start_field" /\ nl -> ParseChars(r, "eat_crnl", <<>>, Append(fs, fld))
          [] st = "in_field" ->
               IF nl THEN ParseChars(r, "eat_crnl", <<>>, Append(fs, fld))
               ELSE IF c = COMMA THEN ParseChars(r, "start_field", <<>>, Append(fs, fld))
               ELSE ParseChars(r, "in_field", Append(fld, c), fs)
          [] st = "in_quoted" ->
               IF c = DQ THEN ParseChars(r, "quote_in_quoted", fld, fs)
               ELSE ParseChars(r, "in_quoted", Append(fld, c), fs)
          [] st = "quote_in_quoted" ->
               IF c = DQ THEN ParseChars(r, "in_quoted", Append(fld, DQ), fs)
               ELSE IF c = COMMA THEN ParseChars(r, "start_field", <<>>, Append(fs, fld))
               ELSE IF nl THEN ParseChars(r, "eat_crnl", <<>>, Append(fs, fld))
               ELSE ParseChars(r, "in_field", Append(fld, c), fs)
          [] OTHER ->   \* eat_crnl
               IF nl THEN ParseChars(r, "eat_crnl", fld, fs)
               ELSE <<"error", fld, fs>>

CsvError == <<<<"csv.Error">>>>

\* csv.reader over the chunks: one record each time the machine is back at
\* the start of a record; at the end of the input an open field is kept
RECURSIVE CsvRecords(_, _, _, _)
CsvRecords(chunks, st, fld, fs) ==
  IF chunks = <<>>
  THEN (IF fld # <<>> \/ st = "in_quoted" THEN <<Append(fs, fld)>> ELSE <<>>)
  ELSE LET p == ParseChars(Head(chunks), st, fld, fs)
       IN  IF p[1] = "error" THEN <<CsvError>>
           ELSE IF p[1] = "start_record"
           THEN <<p[3]>> \o CsvRecords(Tail(chunks), "start_record", <<>>, <<>>)
           ELSE CsvRecords(Tail(chunks), p[1], p[2], p[3])

\* the record csv.reader makes of the text of one writerow call
LineFields(text) == CsvRecords(<<text>>, "start_record", <<>>, <<>>)

\* DictReader.__next__: dict(zip(fieldnames, row)), restkey None, restval None
DictOf(names, row) ==
  LET lf == Len(names)
      lr == Len(row)
      last(k) == CHOOSE i \in 1..lf : names[i] = k /\ \A j \in (i+1)..lf : names[j] # k
  IN  [k \in {names[i] : i \in 1..lf} \cup (IF lf < lr THEN {NULL} ELSE {}) |->
         IF k = NULL /\ lf < lr THEN SubSeq(row, lf + 1, lr)
         ELSE IF last(k) <= lr THEN row[last(k)] ELSE NULL]

\* DictReader: the first record names the fields, blank records are skipped
DictRows(recs) ==
  IF recs = <<>> THEN <<>>
  ELSE LET data == SelectSeq(Tail(recs), LAMBDA r : r # <<>>)
       IN  [i \in 1..Len(data) |-> DictOf(Head(recs), data[i])]

RECURSIVE Concat(_)
Concat(ts) == IF ts = <<>> THEN <<>> ELSE Head(ts) \o Concat(Tail(ts))

\* read_csv (lines 84-93) on the file's lines
read_csv(ex, f) ==
  IF ~ex THEN <<>>
  ELSE DictRows(CsvRecords(SplitLines(ReadText(Concat([i \in 1..Len(f) |-> f[i].text])), <<>>),
                           "start_record", <<>>, <<>>))

\* ---------------------------------------------------------------- state
VARIABLES
  exists,      \* os.path.exists(out_path)
  file,        \* the lines of the sink file, in file order
  lockHolder,  \* the call holding the flock on the file, 0 when none
  pc,          \* where each call stands
  given,       \* the rows each call was given, as the caller passed them
  rows,        \* the caller's rows after the stamping of line 46
  fileExists,  \* each call's local file_exists
  buf,         \* lines each call's file object has buffered
  idx,         \* the row each call writes next
  err,         \* an exception is propagating in the call
  src,         \* the input path of a process_receipt invocation
  result,      \* what process_receipt returned
  readResult,  \* what the last read_csv returned
  op,          \* the function that was called on arg, "none" before the call
  arg,         \* the argument of a call of parse_fields or of a flattener
  ret          \* what that call returned

vars == <<exists, file, lockHolder, pc, given, rows, fileExists, buf, idx, err, src,
          result, readResult, op, arg, ret>>

callVars == <<given, rows, fileExists, idx, err>>
receiptVars == <<src, result>>
pureVars == <<op, arg, ret>>
sinkVars == <<exists, file, lockHolder, pc, callVars, buf, receiptVars, readResult>>

NoPath == <<>>
NotRead == <<<<"unread">>>>

NoCall ==
  /\ op = "none"
  /\ ret = <<>>

SinkInit ==
  /\ exists = FALSE
  /\ file = <<>>
  /\ lockHolder = 0
  /\ pc = [c \in Calls |-> "idle"]
  /\ given = [c \in Calls |-> <<>>]
  /\ rows = [c \in Calls |-> <<>>]
  /\ fileExists = [c \in Calls |-> FALSE]
  /\ buf = [c \in Calls |-> <<>>]
  /\ idx = [c \in Calls |-> 1]
  /\ err = [c \in Calls |-> FALSE]
  /\ src = [c \in Calls |-> NoPath]
  /\ result = [c \in Calls |-> "none"]
  /\ readResult = NotRead

Init ==
  /\ SinkInit
  /\ NoCall
  /\ arg = <<>>

\* a line of the file: the text of one writerow/writeheader call; owner and n
\* (0 for the header, else the row's index in the call) record where it came from
Line(c, n, fs) == [owner |-> c, n |-> n, text |-> EncodeLine(fs)]

\* ------------------------------------------------------------ write_csv
\* variant: mode 'w'
OpenTruncating(f) == <<>>

\* line 49: mode 'a' keeps what the file holds
FileAfterOpen(f) == f

\* variant: an unlock that is skipped
ReleasedNever(h, c) == h

\* flock(LOCK_UN), and the close of the descriptor: c's lock is dropped
Released(h, c) == IF h = c THEN 0 ELSE h

\* A line handed to the file object: it is buffered; buffered lines that leave
\* no room for it are appended to the file first (one O_APPEND write)
Buffered(c, ln) ==
  IF Len(buf[c]) >= BufCap
  THEN /\ file' = file \o buf[c]
       /\ buf' = [buf EXCEPT ![c] = <<ln>>]
  ELSE /\ buf' = [buf EXCEPT ![c] = Append(@, ln)]
       /\ UNCHANGED file

\* lines 36-46: the existence test, then the stamping of the caller's rows
CheckExists(c, rs) ==
  /\ pc[c] = "idle"
  /\ fileExists' = [fileExists EXCEPT ![c] = exists]
  /\ given' = [given EXCEPT ![c] = rs]
  /\ rows' = [rows EXCEPT ![c] = StampAll(rs)]
  /\ pc' = [pc EXCEPT ![c] = "open"]
  /\ UNCHANGED <<exists, file, lockHolder, buf, idx, err, readResult, pureVars>>

\* line 49: open(out_path, 'a') creates the file when it is absent
Open(c) ==
  /\ pc[c] = "open"
  /\ exists' = TRUE
  /\ file' = FileAfterOpen(file)
  /\ pc' = [pc EXCEPT ![c] = "lock"]
  /\ UNCHANGED <<lockHolder, callVars, buf, receiptVars, readResult, pureVars>>

\* line 49 raising (no permission, a directory in the way): nothing was opened
OpenFails(c) ==
  /\ pc[c] = "open"
  /\ pc' = [pc EXCEPT ![c] = "raised"]
  /\ UNCHANGED <<exists, file, lockHolder, callVars, buf, receiptVars, readResult, pureVars>>

\* line 52: flock(LOCK_EX) blocks until no other open file holds the lock
Lock(c) ==
  /\ pc[c] = "lock"
  /\ lockHolder = 0
  /\ lockHolder' = c
  /\ pc' = [pc EXCEPT ![c] = "header"]
  /\ UNCHANGED <<exists, file, callVars, buf, receiptVars, readResult, pureVars>>

\* line 52 raising (OSError): control goes to the finally clause
FlockFails(c) ==
  /\ pc[c] = "lock"
  /\ err' = [err EXCEPT ![c] = TRUE]
  /\ pc' = [pc EXCEPT ![c] = "unlock"]
  /\ UNCHANGED <<exists, file, lockHolder, given, rows, fileExists, idx, buf,
                 receiptVars, readResult, pureVars>>

\* variant: a header written by every call
NeedHeaderAlways(c) == TRUE

\* line 57: the header is due when the file was absent at line 41
NeedHeader(c) == ~fileExists[c]

\* lines 54-58: the DictWriter, and the header when it is due
WriteHeader(c) ==
  /\ pc[c] = "header"
  /\ IF NeedHeader(c)
     THEN Buffered(c, Line(c, 0, HeaderFields))
     ELSE UNCHANGED <<file, buf>>
  /\ pc' = [pc EXCEPT ![c] = IF rows[c] = <<>> THEN "unlock" ELSE "rows"]
  /\ UNCHANGED <<exists, lockHolder, callVars, receiptVars, readResult, pureVars>>

\* lines 61-67: one row; a value the encoder rejects raises out of writerow
WriteRow(c) ==
  /\ pc[c] = "rows"
  /\ LET fs == CleanRow(rows[c][idx[c]])
     IN  IF Encodable(fs)
         THEN /\ Buffered(c, Line(c, idx[c], fs))
              /\ idx' = [idx EXCEPT ![c] = @ + 1]
              /\ pc' = [pc EXCEPT ![c] = IF idx[c] = Len(rows[c]) THEN "unlock" ELSE "rows"]
              /\ UNCHANGED err
         ELSE /\ err' = [err EXCEPT ![c] = TRUE]
              /\ pc' = [pc EXCEPT ![c] = "unlock"]
              /\ UNCHANGED <<file, buf, idx>>
  /\ UNCHANGED <<exists, lockHolder, given, rows, fileExists, receiptVars, readResult, pureVars>>

\* lines 69-71: the finally clause
Unlock(c) ==
  /\ pc[c] = "unlock"
  /\ lockHolder' = Released(lockHolder, c)
  /\ pc' = [pc EXCEPT ![c] = "close"]
  /\ UNCHANGED <<exists, file, callVars, buf, receiptVars, readResult, pureVars>>

\* the end of the with block (line 49): close() writes what is still buffered
\* and closes the descriptor; then the call returns, or raises what was raised
Close(c) ==
  /\ pc[c] = "close"
  /\ file' = file \o buf[c]
  /\ buf' = [buf EXCEPT ![c] = <<>>]
  /\ lockHolder' = Released(lockHolder, c)
  /\ pc' = [pc EXCEPT ![c] = IF err[c] THEN "raised" ELSE "returned"]
  /\ UNCHANGED <<exists, callVars, receiptVars, readResult, pureVars>>

Step(c) ==
  \/ Open(c)
  \/ OpenFails(c)
  \/ Lock(c)
  \/ FlockFails(c)
  \/ WriteHeader(c)
  \/ WriteRow(c)
  \/ Unlock(c)
  \/ Close(c)

\* write_csv(rows, out_path), called by any caller (lines 15-46)
WriteCsvCall(c, rs) ==
  /\ CheckExists(c, rs)
  /\ UNCHANGED receiptVars

\* read_csv(csv_path)
ReadBack ==
  /\ readResult' = read_csv(exists, file)
  /\ UNCHANGED <<exists, file, lockHolder, pc, callVars, buf, receiptVars, pureVars>>

\* ------------------------------------------------------ process_receipt
\* variant: the path taken as it is
BasenameWholePath(p) == p

\* os.path.basename: what follows the last separator
Basename(p) ==
  LET seps == {i \in 1..Len(p) : p[i] = SLASH}
      k    == IF seps = {} THEN 0 ELSE CHOOSE i \in seps : \A j \in seps : j <= i
  IN  SubSeq(p, k + 1, Len(p))

\* lines 96-103: the row process_receipt hands to write_csv
ReceiptRow(path, fields) ==
  [date         |-> Get(fields, "date"),
   start_time   |-> Get(fields, "start_time"),
   end_time     |-> Get(fields, "end_time"),
   total        |-> Get(fields, "total"),
   source_file  |-> Basename(path),
   processed_at |-> NULL]

\* the receipt paths a caller may pass, and those that exist on disk
InputPaths == { <<"in", SLASH, "r1.jpg">>, <<"in", SLASH, "gone.jpg">>, <<BAD>> }
ExistingInputs == InputPaths \ { <<"in", SLASH, "gone.jpg">> }

\* what extract_blocks and parse_fields make of an existing receipt: an
\* exception of extract_blocks, or the four parsed fields (None when not found)
NoFields == [date |-> NULL, start_time |-> NULL, end_time |-> NULL, total |-> NULL]
Extractions ==
  { [raised |-> TRUE,  fields |-> NoFields],
    [raised |-> FALSE, fields |-> NoFields],
    [raised |-> FALSE, fields |-> [date |-> <<"2024-09-24">>, start_time |-> <<"9:00">>,
                                   end_time |-> NULL, total |-> <<"123.40">>]] }

\* variant: the row handed over twice
ReceiptRowsTwice(path, fields) == <<ReceiptRow(path, fields), ReceiptRow(path, fields)>>

\* line 109: write_csv([csv_row], output_csv), a list of the one row
ReceiptRows(path, fields) == <<ReceiptRow(path, fields)>>

\* lines 63-109: up to the call of write_csv and into its first statements; a
\* missing input (line 65) or an exception of extract_blocks ends it with False
ProcessReceipt(c, path, ex) ==
  /\ pc[c] = "idle"
  /\ src' = [src EXCEPT ![c] = path]
  /\ IF path \notin ExistingInputs \/ ex.raised
     THEN /\ result' = [result EXCEPT ![c] = "false"]
          /\ pc' = [pc EXCEPT ![c] = "reported"]
          /\ UNCHANGED <<exists, file, lockHolder, callVars, buf, readResult, pureVars>>
     ELSE /\ CheckExists(c, ReceiptRows(path, ex.fields))
          /\ UNCHANGED result

\* lines 109-135: write_csv returned (True) or raised (caught, False)
ReceiptReturn(c) ==
  /\ pc[c] \in {"returned", "raised"}
  /\ src[c] # NoPath
  /\ result' = [result EXCEPT ![c] = IF pc[c] = "returned" THEN "true" ELSE "false"]
  /\ pc' = [pc EXCEPT ![c] = "reported"]
  /\ UNCHANGED <<exists, file, lockHolder, callVars, buf, src, readResult, pureVars>>

\* ----------------------------------------------------------- the inputs
RowFull ==
  [date |-> <<"d1">>, start_time |-> <<"s1">>, end_time |-> <<"e1">>, total |-> <<"t1">>,
   source_file |-> <<"f1">>, processed_at |-> <<"p1">>]
RowSparse == [date |-> <<"d2">>, vendor |-> <<"v2">>]
RowNull ==
  [date |-> NULL, start_time |-> <<>>, end_time |-> NULL, total |-> NULL,
   source_file |-> <<"f3">>, processed_at |-> <<>>]
RowBad == [source_file |-> <<BAD>>, processed_at |-> NULL]

\* the row lists of the concurrent callers
CallInputs == { <<>>, <<RowSparse>>, <<RowFull>>, <<RowNull, RowFull>>, <<RowFull, RowBad>> }

\* field values of the round-trip inputs: up to MaxStr tokens, the special
\* characters of the csv dialect among them
Alphabet == {"a", COMMA, DQ, CR, LF}
Strs == UNION {[1..n -> Alphabet] : n \in 0..MaxStr}
ShapeRows == {RowFull, RowSparse, RowNull, RowBad}
RTRows == {[RowFull EXCEPT !.date = s] : s \in Strs} \cup ShapeRows
RTInputs == {<<>>} \cup {<<r>> : r \in RTRows} \cup {<<r, q>> : r \in RTRows, q \in ShapeRows}

\* --------------------------------------------------------- specifications
\* concurrent callers of write_csv on one path
Next ==
  \E c \in Calls :
    \/ \E rs \in CallInputs : WriteCsvCall(c, rs)
    \/ Step(c)

Spec == Init /\ [][Next]_vars

Quiet == \A c \in Calls : pc[c] \in {"idle", "returned", "raised", "reported"}

\* one caller at a time: a call starts when no other is under way
NextSeq ==
  \E c \in Calls :
    \/ Quiet /\ \E rs \in CallInputs : WriteCsvCall(c, rs)
    \/ Step(c)

SpecSeq == Init /\ [][NextSeq]_vars

\* concurrent process_receipt invocations on one output path
NextPR ==
  \E c \in Calls :
    \/ \E path \in InputPaths, ex \in Extractions : ProcessReceipt(c, path, ex)
    \/ ReceiptReturn(c)
    \/ Step(c)

SpecPR == Init /\ [][NextPR]_vars

\* one write_csv call to a fresh path, and a read_csv before or after it
NextRT ==
  \/ readResult = NotRead /\ \E rs \in RTInputs : WriteCsvCall(1, rs)
  \/ Step(1)
  \/ Quiet /\ readResult = NotRead /\ ReadBack

SpecRT == Init /\ [][NextRT]_vars

\* ------------------------------------------------------------ properties
HeaderText == EncodeLine(HeaderFields)

IsPrefix(f, g) == Len(f) <= Len(g) /\ SubSeq(g, 1, Len(f)) = f

HeaderLines == {i \in 1..Len(file) : file[i].text = HeaderText}

\* the positions of the file that hold row n of call c, as the call encoded it
RowLinesOf(c, n) ==
  {i \in 1..Len(file) : file[i].owner = c /\ file[i].text = EncodeLine(CleanRow(rows[c][n]))}

LinesOf(c) == {i \in 1..Len(file) : file[i].owner = c}

AllReturnedOneRow == \A c \in Calls : pc[c] = "returned" /\ Len(given[c]) = 1

\* C1: when every one of the N concurrent calls was given one row and has
\* returned, the file holds N+1 lines: one header line, and one line per call
\* holding that call's row.
C1_ConcurrentAppenders ==
  AllReturnedOneRow =>
    /\ Len(file) = NCalls + 1
    /\ Cardinality(HeaderLines) = 1
    /\ \A c \in Calls : Cardinality(RowLinesOf(c, 1)) = 1

\* C2: the appends are serialized where the bytes reach the file: every line is
\* the header or one row of the call that wrote it, and the lines of one call
\* are contiguous in the file.
C2_SerializedAppends ==
  /\ \A i \in 1..Len(file) :
       \/ file[i].text = HeaderText
       \/ \E n \in 1..Len(rows[file[i].owner]) : i \in RowLinesOf(file[i].owner, n)
  /\ \A i, j, k \in 1..Len(file) :
       (i < k /\ k < j /\ file[i].owner = file[j].owner) => file[k].owner = file[i].owner

\* C3: whenever the file is non-empty, its first line is the header and the
\* header occurs exactly once in it.
C3_HeaderOnceAndFirst ==
  file # <<>> => (file[1].text = HeaderText /\ Cardinality(HeaderLines) = 1)

\* C4: two calls of one row each, one after the other, the first finding no
\* file: the file is the header, the first call's row, the second call's row.
C4_SequentialHeaderOnce ==
  \A a, b \in Calls :
    ( /\ a # b
      /\ pc[a] = "returned" /\ pc[b] = "returned"
      /\ Len(given[a]) = 1 /\ Len(given[b]) = 1
      /\ ~fileExists[a]
      /\ \A c \in Calls \ {a, b} : pc[c] = "idle" )
    => /\ Len(file) = 3
       /\ HeaderLines = {1}
       /\ RowLinesOf(a, 1) \cap {2} # {}
       /\ RowLinesOf(b, 1) \cap {3} # {}
       /\ file[1].owner = a

C4_Witness ==
  \E a, b \in Calls :
    /\ a # b
    /\ pc[a] = "returned" /\ pc[b] = "returned"
    /\ Len(given[a]) = 1 /\ Len(given[b]) = 1
    /\ ~fileExists[a] /\ fileExists[b]
    /\ Len(file) = 3

\* C5: a step never changes or removes what the file holds: the contents
\* before the step are a prefix of the contents after it.
C5_AppendOnly == [][IsPrefix(file, file')]_vars

C5_Witness ==
  \E c, d \in Calls :
    /\ c # d
    /\ pc[c] = "returned" /\ pc[d] = "returned"
    /\ LinesOf(c) # {} /\ LinesOf(d) # {}
    /\ \E i \in LinesOf(c), j \in LinesOf(d) : i < j /\ fileExists[d]

\* C6: once a call has failed (it raised to its caller), the file holds only
\* complete lines and, when it is non-empty, starts with the header, also
\* after later successful appends to the same path.
C6_ConsistentAfterFailure ==
  (\E c \in Calls : pc[c] = "raised") =>
    /\ \A i \in 1..Len(file) :
         \/ file[i].text = HeaderText
         \/ \E n \in 1..Len(rows[file[i].owner]) : i \in RowLinesOf(file[i].owner, n)
    /\ file # <<>> => file[1].text = HeaderText

\* C7: a call that has returned or raised holds no lock on the file, whether
\* its writes succeeded or an error was raised while it held the lock.
C7_LockReleased ==
  \A c \in Calls : pc[c] \in {"idle", "returned", "raised", "reported"} => lockHolder # c

\* a call that raised while writing under the lock is over, and another call
\* holds the lock
C7_Witness ==
  \E c, d \in Calls :
    /\ pc[c] = "raised"
    /\ idx[c] = 2 /\ Len(rows[c]) = 2 /\ ~Encodable(CleanRow(rows[c][2]))
    /\ lockHolder = d
    /\ d # c

\* the value read_csv's caller expects of field h of an appended row: what
\* the row holds for it once write_csv has run (the stamp included)
WrittenValue(c, n, h) == Get(rows[c][n], h)

\* C8: every data row in the file reads back, with the csv dialect, as exactly
\* six columns in header order: the text of the caller's value, empty for a
\* missing or None field; nothing for keys outside the six; processed_at is
\* the caller's value when it is non-empty and the current timestamp else.
C8_SixColumns ==
  \A i \in 1..Len(file) :
    file[i].n >= 1 =>
      LET g    == given[file[i].owner][file[i].n]
          recs == LineFields(file[i].text)
      IN  /\ Len(recs) = 1
          /\ Len(recs[1]) = Len(Headers)
          /\ \A k \in 1..(Len(Headers) - 1) : recs[1][k] = Str(Get(g, Headers[k]))
          /\ recs[1][Len(Headers)] # <<>>
          /\ recs[1][Len(Headers)] =
               (IF Get(g, "processed_at") \in {NULL, <<>>} THEN Now ELSE g["processed_at"])

\* a row with missing fields and a key outside the six, and a row whose
\* processed_at the caller set, are in the file
C8_Witness ==
  /\ \E i \in 1..Len(file) :
       /\ file[i].n >= 1
       /\ given[file[i].owner][file[i].n] = RowSparse
  /\ \E i \in 1..Len(file) :
       /\ file[i].n >= 1
       /\ Get(given[file[i].owner][file[i].n], "processed_at") = <<"p1">>
       /\ \E k \in 1..MaxStr : given[file[i].owner][file[i].n]["date"] = [j \in 1..k |-> COMMA]

\* C9: read_csv after a write_csv call that returned, on a path that was
\* fresh, gives one record per row, in order, holding for every field that was
\* not None in the input the value that was written; read_csv on a path that
\* does not exist gives the empty sequence.
C9_RoundTrip ==
  readResult # NotRead =>
    /\ ~exists => readResult = <<>>
    /\ pc[1] = "returned" =>
         /\ Len(readResult) = Len(given[1])
         /\ \A n \in 1..Len(given[1]) : \A h \in HeaderSet :
              Get(given[1][n], h) # NULL =>
                /\ <<h>> \in DOMAIN readResult[n]
                /\ readResult[n][<<h>>] = WrittenValue(1, n, h)

\* f is what follows the last separator of path p
IsBaseNameOf(f, p) ==
  /\ \A i \in 1..Len(f) : f[i] # SLASH
  /\ Len(f) <= Len(p)
  /\ SubSeq(p, Len(p) - Len(f) + 1, Len(p)) = f
  /\ Len(f) < Len(p) => p[Len(p) - Len(f)] = SLASH

RowsOfSource(p) ==
  {i \in 1..Len(file) :
     /\ file[i].n >= 1
     /\ Len(LineFields(file[i].text)) = 1
     /\ Len(LineFields(file[i].text)[1]) = Len(Headers)
     /\ IsBaseNameOf(LineFields(file[i].text)[1][5], p)}

\* C11 as stated: whatever invocations ran, retries of a source among them,
\* the sink holds at most one data row for each source.
C11_OneRowPerSource ==
  \A p \in InputPaths : Cardinality(RowsOfSource(p)) <= 1

\* data rows an invocation has put in the sink or still holds in its buffer
DataRowsOf(c) ==
  Cardinality({i \in LinesOf(c) : file[i].n >= 1})
    + Cardinality({i \in 1..Len(buf[c]) : buf[c][i].n >= 1})

Succeeded == {c \in Calls : result[c] = "true"}

\* C11 (amended): every invocation contributes at most one data row at any
\* moment, and once all invocations have reported, the sink holds one data row
\* for each invocation that reported success, so a source that was processed
\* twice has two rows.
C11_OneRowPerInvocation ==
  /\ \A c \in Calls : DataRowsOf(c) <= 1
  /\ (\A c \in Calls : pc[c] = "reported") =>
       /\ Cardinality({i \in 1..Len(file) : file[i].n >= 1}) = Cardinality(Succeeded)
       /\ \A p \in InputPaths :
            Cardinality(RowsOfSource(p)) = Cardinality({c \in Succeeded : src[c] = p})

\* a retry: two invocations on the same source both reported success, and the
\* sink holds two rows for it
C11_Witness ==
  \E c, d \in Calls :
    /\ c # d
    /\ src[c] = src[d]
    /\ result[c] = "true" /\ result[d] = "true"
    /\ Cardinality(RowsOfSource(src[c])) = 2

\* ------------------------------------------------ the document flattener
\* A JSON object is a function from its keys, a JSON array a sequence, a JSON
\* string a string.  d.get(k, dflt):
PyGet(d, k, dflt) == IF k \in DOMAIN d THEN d[k] ELSE dflt

\* {} and [] as defaults of get
EmptyDict == <<>>
EmptyList == <<>>

\* field.get('Type', {}).get('Text', '')
FieldType(field) == PyGet(PyGet(field, "Type", EmptyDict), "Text", "")

\* variant: a text detected with a confidence below 50 counts as absent
FieldValueThresholded(field) ==
  IF PyGet(PyGet(field, "ValueDetection", EmptyDict), "Confidence", 100) < 50 THEN ""
  ELSE PyGet(PyGet(field, "ValueDetection", EmptyDict), "Text", "")

\* field.get('ValueDetection', {}).get('Text', '')
FieldValue(field) == PyGet(PyGet(field, "ValueDetection", EmptyDict), "Text", "")

\* variant: a value once set is kept
SummaryFieldFirstWins(acc, field) ==
  IF FieldType(field) = "VENDOR_NAME" /\ acc.vendor_name = ""
    THEN [acc EXCEPT !.vendor_name = FieldValue(field)]
  ELSE IF FieldType(field) = "TOTAL" /\ acc.total = ""
    THEN [acc EXCEPT !.total = FieldValue(field)]
  ELSE IF FieldType(field) = "INVOICE_RECEIPT_DATE" /\ acc.date = ""
    THEN [acc EXCEPT !.date = FieldValue(field)]
  ELSE acc

\* the if/elif chain on a summary field's type
SummaryField(acc, field) ==
  IF FieldType(field) = "VENDOR_NAME" THEN [acc EXCEPT !.vendor_name = FieldValue(field)]
  ELSE IF FieldType(field) = "TOTAL" THEN [acc EXCEPT !.total = FieldValue(field)]
  ELSE IF FieldType(field) = "INVOICE_RECEIPT_DATE" THEN [acc EXCEPT !.date = FieldValue(field)]
  ELSE acc

\* for field in expense_doc.get('SummaryFields', [])
RECURSIVE SummaryFields(_, _, _)
SummaryFields(fs, i, acc) ==
  IF i > Len(fs) THEN acc ELSE SummaryFields(fs, i + 1, SummaryField(acc, fs[i]))

\* the if/elif chain on a line item field's type
LineItemField(it, field) ==
  IF FieldType(field) = "ITEM" THEN [it EXCEPT !.item = FieldValue(field)]
  ELSE IF FieldType(field) = "PRICE" THEN [it EXCEPT !.price = FieldValue(field)]
  ELSE it

\* for field in line_item.get('LineItemExpenseFields', [])
RECURSIVE LineItemExpenseFields(_, _, _)
LineItemExpenseFields(fs, i, it) ==
  IF i > Len(fs) THEN it ELSE LineItemExpenseFields(fs, i + 1, LineItemField(it, fs[i]))

\* item_name = '', item_price = '', then the scan of the item's fields
ScannedItem(line_item) ==
  LineItemExpenseFields(PyGet(line_item, "LineItemExpenseFields", EmptyList), 1,
                        [item |-> "", price |-> ""])

\* variant: an item is kept for its name only
KeptForName(it) == it.item # ""

\* if item_name or item_price
Kept(it) == it.item # "" \/ it.price # ""

\* for line_item in line_group.get('LineItems', [])
RECURSIVE LineItems(_, _, _)
LineItems(ls, i, items) ==
  IF i > Len(ls) THEN items
  ELSE LineItems(ls, i + 1,
                 IF Kept(ScannedItem(ls[i])) THEN Append(items, ScannedItem(ls[i]))
                 ELSE items)

\* for line_group in expense_doc.get('LineItemGroups', [])
RECURSIVE LineItemGroups(_, _, _)
LineItemGroups(gs, i, items) ==
  IF i > Len(gs) THEN items
  ELSE LineItemGroups(gs, i + 1, LineItems(PyGet(gs[i], "LineItems", EmptyList), 1, items))

\* the body of the loop over the expense documents: the summary fields, then
\* the line items, both into the one record
ExpenseDoc(acc, doc) ==
  LET a == SummaryFields(PyGet(doc, "SummaryFields", EmptyList), 1, acc)
  IN  [a EXCEPT !.items = LineItemGroups(PyGet(doc, "LineItemGroups", EmptyList), 1, a.items)]

\* for expense_doc in data.get('ExpenseDocuments', [])
RECURSIVE ExpenseDocuments(_, _, _)
ExpenseDocuments(ds, i, acc) ==
  IF i > Len(ds) THEN acc ELSE ExpenseDocuments(ds, i + 1, ExpenseDoc(acc, ds[i]))

\* the record before the scan
Extracted(name) ==
  [filename |-> name, vendor_name |-> "", total |-> "", date |-> "", items |-> <<>>,
   processed_at |-> Now]

\* csv_generator.py: the record of one parsed response
extract_data_from_json(name, data) ==
  ExpenseDocuments(PyGet(data, "ExpenseDocuments", EmptyList), 1, Extracted(name))

\* app.py: the same scan, written out inside download_csv's loop
DownloadRecord(name, data) ==
  ExpenseDocuments(PyGet(data, "ExpenseDocuments", EmptyList), 1, Extracted(name))

\* the inputs of the flattener: parsed responses
MaxFields == 2
MaxItems == 3
MaxDocs == 2

SeqsUpTo(S, n) == UNION {[1..k -> S] : k \in 0..n}

\* a field as the response holds it: its type tag and its detected text
Field(t, v) == [Type |-> [Text |-> t], ValueDetection |-> [Text |-> v]]

\* fields that lack a key
FieldNoType == [ValueDetection |-> [Text |-> "A"]]
FieldNoValue == [Type |-> [Text |-> "VENDOR_NAME"]]

SummaryFieldSet ==
  {Field(t, v) : t \in {"VENDOR_NAME", "TOTAL", "INVOICE_RECEIPT_DATE", "TAX"},
                 v \in {"", "A", "B"}} \cup {FieldNoType, FieldNoValue}

ItemFieldSet == {Field(t, v) : t \in {"ITEM", "PRICE", "QUANTITY"}, v \in {"", "x", "y"}}

\* line items: every list of up to MaxFields fields, and one without the key
ItemVariants ==
  {[LineItemExpenseFields |-> fs] : fs \in SeqsUpTo(ItemFieldSet, MaxFields)} \cup {EmptyDict}

\* the line items that the item lists are built from
ItemChoices ==
  { [LineItemExpenseFields |-> <<Field("ITEM", "x"), Field("PRICE", "y")>>],
    [LineItemExpenseFields |-> <<Field("ITEM", "y")>>],
    [LineItemExpenseFields |-> <<Field("PRICE", "x")>>],
    [LineItemExpenseFields |-> <<Field("ITEM", ""), Field("PRICE", "")>>],
    [LineItemExpenseFields |-> <<>>] }

\* expense documents: summary fields only; one group of items; two groups
SummaryDocs == {[SummaryFields |-> fs] : fs \in SeqsUpTo(SummaryFieldSet, MaxFields)}
ItemDocs ==
  {[SummaryFields |-> <<Field("VENDOR_NAME", "A")>>,
    LineItemGroups |-> <<[LineItems |-> ls]>>] : ls \in SeqsUpTo(ItemChoices, MaxItems)}
  \cup {[LineItemGroups |-> <<[LineItems |-> <<li>>]>>] : li \in ItemVariants}
  \cup {[LineItemGroups |-> <<[LineItems |-> <<a>>], [LineItems |-> <<b>>]>>] :
          a, b \in ItemChoices}

\* the sub-documents of the responses that hold several
DocChoices ==
  { [SummaryFields |-> <<Field("VENDOR_NAME", "A"), Field("TOTAL", "A")>>,
     LineItemGroups |-> <<[LineItems |-> <<[LineItemExpenseFields |-> <<Field("ITEM", "x")>>]>>]>>],
    [SummaryFields |-> <<Field("VENDOR_NAME", "B")>>,
     LineItemGroups |-> <<[LineItems |-> <<[LineItemExpenseFields |-> <<Field("ITEM", "y")>>]>>]>>],
    [SummaryFields |-> <<Field("INVOICE_RECEIPT_DATE", "B")>>],
    EmptyDict }

\* a field as the service returns it: the tag and the text each come with a
\* confidence score, and the field carries keys that the scan never reads
DetectedField(t, v, c) ==
  [Type |-> [Text |-> t, Confidence |-> c],
   ValueDetection |-> [Text |-> v, Confidence |-> c],
   PageNumber |-> 1]

DetectedFieldSet ==
  {DetectedField(t, v, c) : t \in {"VENDOR_NAME", "TAX"}, v \in {"A", "B"}, c \in {10, 99}}

\* a line item of such fields, with a key of its own that the scan never reads
DetectedItems ==
  {[LineItemExpenseFields |-> <<DetectedField("ITEM", v, c), DetectedField(t, "y", 99)>>,
    Row |-> 1] : v \in {"x", "y"}, c \in {10, 99}, t \in {"PRICE", "QUANTITY"}}

\* expense documents as the service returns them
DetectedDocs ==
  {[ExpenseIndex |-> 1, SummaryFields |-> fs] : fs \in SeqsUpTo(DetectedFieldSet, MaxFields)}
  \cup {[ExpenseIndex |-> 1,
          SummaryFields |-> <<f>>,
          LineItemGroups |-> <<[LineItemGroupIndex |-> 1, LineItems |-> <<li>>]>>] :
            f \in DetectedFieldSet, li \in DetectedItems}

\* expense documents with a tag twice among the summary fields and a tag twice
\* among the fields of a line item
DuplicateDocs ==
  {[SummaryFields |-> <<Field(t, "A"), Field("TAX", "A"), Field(t, "B")>>,
    LineItemGroups |->
      <<[LineItems |-> <<[LineItemExpenseFields |-> <<Field(u, "x"), Field(u, "y")>>]>>]>>] :
        t \in {"VENDOR_NAME", "TOTAL", "INVOICE_RECEIPT_DATE"}, u \in {"ITEM", "PRICE"}}

FlatInputs ==
  {[ExpenseDocuments |-> <<d>>] : d \in SummaryDocs \cup ItemDocs \cup DuplicateDocs}
  \cup {[ExpenseDocuments |-> ds] : ds \in SeqsUpTo(DocChoices, MaxDocs)}
  \cup {[DocumentMetadata |-> [Pages |-> 1], ExpenseDocuments |-> <<d>>] : d \in DetectedDocs}
  \cup {EmptyDict}

\* one parsed response, flattened by either of the two scans
InitFlat ==
  /\ SinkInit
  /\ NoCall
  /\ arg \in {[name |-> "r1", data |-> d] : d \in FlatInputs}

ExtractDataFromJson ==
  /\ op = "none"
  /\ op' = "extract_data_from_json"
  /\ ret' = extract_data_from_json(arg.name, arg.data)
  /\ UNCHANGED <<arg, sinkVars>>

DownloadCsvRecord ==
  /\ op = "none"
  /\ op' = "download_csv"
  /\ ret' = DownloadRecord(arg.name, arg.data)
  /\ UNCHANGED <<arg, sinkVars>>

NextFlat ==
  \/ ExtractDataFromJson
  \/ DownloadCsvRecord

SpecFlat == InitFlat /\ [][NextFlat]_vars

\* ---------------------------------------------------------- C18, C19
\* the detected text of the last field of fs tagged tag, "" when there is none
LastText(fs, tag) ==
  LET I == {i \in 1..Len(fs) : FieldType(fs[i]) = tag}
  IN  IF I = {} THEN ""
      ELSE FieldValue(fs[CHOOSE i \in I : \A j \in I : j <= i])

FieldsOf(li) == PyGet(li, "LineItemExpenseFields", EmptyList)

\* the line items of an expense document, group after group
RECURSIVE InputItems(_, _)
InputItems(gs, i) ==
  IF i > Len(gs) THEN <<>>
  ELSE PyGet(gs[i], "LineItems", EmptyList) \o InputItems(gs, i + 1)

HasNameOrPrice(li) ==
  LastText(FieldsOf(li), "ITEM") # "" \/ LastText(FieldsOf(li), "PRICE") # ""

\* what an expense document taken alone declares
Declared(doc) ==
  LET keep == SelectSeq(InputItems(PyGet(doc, "LineItemGroups", EmptyList), 1), HasNameOrPrice)
      sf == PyGet(doc, "SummaryFields", EmptyList)
  IN  [vendor_name |-> LastText(sf, "VENDOR_NAME"),
       total |-> LastText(sf, "TOTAL"),
       date |-> LastText(sf, "INVOICE_RECEIPT_DATE"),
       items |-> [i \in 1..Len(keep) |->
                    [item |-> LastText(FieldsOf(keep[i]), "ITEM"),
                     price |-> LastText(FieldsOf(keep[i]), "PRICE")]]]

Flattened == op \in {"extract_data_from_json", "download_csv"}
SubDocs == PyGet(arg.data, "ExpenseDocuments", EmptyList)

\* C18: for a response of one expense document, the flattened record holds as
\* many line items as the document has line items with a non-empty ITEM text
\* or a non-empty PRICE text after the scan of their fields, and holds them in
\* the order of the document.
C18_KeptLineItems ==
  (Flattened /\ Len(SubDocs) = 1) =>
    /\ Len(ret.items) = Len(Declared(SubDocs[1]).items)
    /\ ret.items = Declared(SubDocs[1]).items

\* three line items, one of them with an empty name and an empty price, and
\* two items in the record
C18_Witness ==
  /\ Flattened /\ Len(SubDocs) = 1
  /\ Len(InputItems(PyGet(SubDocs[1], "LineItemGroups", EmptyList), 1)) = 3
  /\ \E i \in 1..3 :
       LET li == InputItems(PyGet(SubDocs[1], "LineItemGroups", EmptyList), 1)[i]
       IN  Len(FieldsOf(li)) = 2 /\ ~HasNameOrPrice(li)
  /\ Len(ret.items) = 2

\* C19: the record flattened from a response with several sub-documents holds
\* the summary fields and the line items of one of them only.
C19_SubDocumentsApart ==
  (Flattened /\ Len(SubDocs) >= 2) =>
    \E k \in 1..Len(SubDocs) :
      /\ ret.vendor_name = Declared(SubDocs[k]).vendor_name
      /\ ret.total = Declared(SubDocs[k]).total
      /\ ret.date = Declared(SubDocs[k]).date
      /\ ret.items = Declared(SubDocs[k]).items

\* ------------------------------------------------- the batch exports
\* A source of a batch is a stored response: its name, whether json.load reads
\* it (a truncated or malformed file raises), and what it parses to.
MaxBatch == 2

GoodData ==
  [ExpenseDocuments |->
     <<[SummaryFields |-> <<Field("VENDOR_NAME", "A"), Field("TOTAL", "B")>>,
        LineItemGroups |->
          <<[LineItems |-> <<[LineItemExpenseFields |-> <<Field("ITEM", "x")>>]>>]>>]>>]

SourceChoices ==
  {[name |-> n, readable |-> TRUE, data |-> d] : n \in {"r1", "r2"}, d \in {GoodData, EmptyDict}}
  \cup {[name |-> n, readable |-> FALSE, data |-> EmptyDict] : n \in {"r1", "r2"}}

Batches == SeqsUpTo(SourceChoices, MaxBatch)

\* the row of the summary csv for one record
SummaryRow(rec) ==
  [filename |-> rec.filename, vendor_name |-> rec.vendor_name, total |-> rec.total,
   date |-> rec.date, item_count |-> Len(rec.items)]

\* csv_generator.py 83-95: the try inside the loop; a source that raises is
\* printed and the loop goes on with the next one
RECURSIVE SummaryLoop(_, _, _)
SummaryLoop(srcs, i, out) ==
  IF i > Len(srcs) THEN out
  ELSE SummaryLoop(srcs, i + 1,
         IF srcs[i].readable
         THEN Append(out, SummaryRow(extract_data_from_json(srcs[i].name, srcs[i].data)))
         ELSE out)

\* csv_generator.py 66-98
generate_summary_csv(srcs) ==
  IF srcs = <<>> THEN [status |-> "nothing", rows |-> <<>>]
  ELSE [status |-> "written", rows |-> SummaryLoop(srcs, 1, <<>>)]

\* app.py 225-269: the loop has no handler of its own; json.load raising ends it
RECURSIVE DownloadLoop(_, _, _)
DownloadLoop(srcs, i, out) ==
  IF i > Len(srcs) THEN [raised |-> FALSE, rows |-> out]
  ELSE IF ~srcs[i].readable THEN [raised |-> TRUE, rows |-> out]
  ELSE DownloadLoop(srcs, i + 1,
         Append(out, SummaryRow(DownloadRecord(srcs[i].name, srcs[i].data))))

\* app.py 203-293: the one try around the whole export; what was collected
\* before an exception is dropped with the response
download_csv(srcs) ==
  IF srcs = <<>> THEN [status |-> "404", rows |-> <<>>]
  ELSE IF DownloadLoop(srcs, 1, <<>>).raised THEN [status |-> "500", rows |-> <<>>]
  ELSE [status |-> "200", rows |-> DownloadLoop(srcs, 1, <<>>).rows]

InitBatch ==
  /\ SinkInit
  /\ NoCall
  /\ arg \in Batches

GenerateSummaryCsv ==
  /\ op = "none"
  /\ op' = "generate_summary_csv"
  /\ ret' = generate_summary_csv(arg)
  /\ UNCHANGED <<arg, sinkVars>>

DownloadCsv ==
  /\ op = "none"
  /\ op' = "download_csv"
  /\ ret' = download_csv(arg)
  /\ UNCHANGED <<arg, sinkVars>>

NextBatch ==
  \/ GenerateSummaryCsv
  \/ DownloadCsv

SpecBatch == InitBatch /\ [][NextBatch]_vars

\* ---------------------------------------------------------------- C12
\* C12: an export over a batch of sources answers its caller (nothing is
\* propagated), and every source of the batch that can be read has its row in
\* the output, whatever happened to the other sources.
C12_FailureIsolated ==
  op \in {"generate_summary_csv", "download_csv"} =>
    /\ ret.status \in {"nothing", "written", "404", "500", "200"}
    /\ \A i \in 1..Len(arg) :
         arg[i].readable => \E j \in 1..Len(ret.rows) : ret.rows[j].filename = arg[i].name

\* ----------------------------------------------------- regular expressions
\* A text is a sequence of characters.  The expressions of parse_fields are
\* sequences of items: a character set with a greedy repetition count, a word
\* boundary, or an alternation of literals; re.IGNORECASE is a flag of the
\* whole expression, and a group is a range of items.
Digits == {"0", "1", "2", "3", "4", "5", "6", "7", "8", "9"}
LowerCase ==
  <<"a", "b", "c", "d", "e", "f", "g", "h", "i", "j", "k", "l", "m",
     "n", "o", "p", "q", "r", "s", "t", "u", "v", "w", "x", "y", "z">>
UpperCase ==
  <<"A", "B", "C", "D", "E", "F", "G", "H", "I", "J", "K", "L", "M",
     "N", "O", "P", "Q", "R", "S", "T", "U", "V", "W", "X", "Y", "Z">>
Letters == {LowerCase[i] : i \in 1..Len(LowerCase)} \cup {UpperCase[i] : i \in 1..Len(UpperCase)}

\* \w and \s
WordChars == Digits \cup Letters \cup {"_"}
Spaces == {" ", LF, CR}

\* str.lower and str.upper of one character
LowerOf ==
  [c \in {UpperCase[i] : i \in 1..Len(UpperCase)} |->
     LowerCase[CHOOSE i \in 1..Len(UpperCase) : UpperCase[i] = c]]
UpperOf ==
  [c \in {LowerCase[i] : i \in 1..Len(LowerCase)} |->
     UpperCase[CHOOSE i \in 1..Len(LowerCase) : LowerCase[i] = c]]
ToLower(ch) == IF ch \in DOMAIN LowerOf THEN LowerOf[ch] ELSE ch
ToUpper(ch) == IF ch \in DOMAIN UpperOf THEN UpperOf[ch] ELSE ch

\* max < 0: no upper limit
Rep(S, lo, hi) == [kind |-> "set", set |-> S, min |-> lo, max |-> hi, alts |-> <<>>]
One(S) == Rep(S, 1, 1)
Opt(S) == Rep(S, 0, 1)
Plus(S) == Rep(S, 1, -1)
Star(S) == Rep(S, 0, -1)
WB == [kind |-> "wb", set |-> {}, min |-> 0, max |-> 0, alts |-> <<>>]
Alt(ws) == [kind |-> "alt", set |-> {}, min |-> 1, max |-> 1, alts |-> ws]
AltOpt(ws) == [kind |-> "alt", set |-> {}, min |-> 0, max |-> 1, alts |-> ws]
Lit(w) == Alt(<<w>>)

FAIL == <<>>

\* under re.IGNORECASE a set takes a character when it holds it in either case
SetMatch(it, ci, ch) ==
  \/ ch \in it.set
  \/ ci /\ (ToLower(ch) \in it.set \/ ToUpper(ch) \in it.set)

StartsWith(t, p, w, ci) ==
  /\ p + Len(w) - 1 <= Len(t)
  /\ \A i \in 1..Len(w) :
       IF ci THEN ToLower(t[p + i - 1]) = ToLower(w[i]) ELSE t[p + i - 1] = w[i]

IsWord(t, p) == p >= 1 /\ p <= Len(t) /\ t[p] \in WordChars

\* \b before the character at p
Boundary(t, p) == IsWord(t, p - 1) # IsWord(t, p)

\* how many characters from p on the set can take
RECURSIVE RunLen(_, _, _, _, _)
RunLen(t, it, ci, p, k) ==
  IF \/ it.max >= 0 /\ k >= it.max
     \/ p + k > Len(t)
  THEN k
  ELSE IF SetMatch(it, ci, t[p + k]) THEN RunLen(t, it, ci, p, k + 1) ELSE k

Cons(p, r) == IF r = FAIL THEN FAIL ELSE <<p>> \o r

\* The backtracking match of the items from i on at position p: FAIL, or the
\* positions at which item i, i+1, ... start, followed by the end of the match.
\* A repetition takes as much as it can and gives back one character at a time;
\* an alternation tries its words in order, then nothing when it is optional.
RECURSIVE MatchAt(_, _, _, _)
RECURSIVE TrySet(_, _, _, _, _)
RECURSIVE TryAlt(_, _, _, _, _)
MatchAt(t, pat, i, p) ==
  IF i > Len(pat.items) THEN <<p>>
  ELSE IF pat.items[i].kind = "wb"
       THEN (IF Boundary(t, p) THEN Cons(p, MatchAt(t, pat, i + 1, p)) ELSE FAIL)
  ELSE IF pat.items[i].kind = "set"
       THEN TrySet(t, pat, i, p, RunLen(t, pat.items[i], pat.ci, p, 0))
  ELSE TryAlt(t, pat, i, p, 1)

TrySet(t, pat, i, p, k) ==
  IF k < pat.items[i].min THEN FAIL
  ELSE LET r == MatchAt(t, pat, i + 1, p + k)
       IN  IF r # FAIL THEN <<p>> \o r ELSE TrySet(t, pat, i, p, k - 1)

TryAlt(t, pat, i, p, j) ==
  IF j > Len(pat.items[i].alts)
  THEN (IF pat.items[i].min = 0 THEN Cons(p, MatchAt(t, pat, i + 1, p)) ELSE FAIL)
  ELSE LET w == pat.items[i].alts[j]
           r == IF StartsWith(t, p, w, pat.ci) THEN MatchAt(t, pat, i + 1, p + Len(w))
                ELSE FAIL
       IN  IF r # FAIL THEN <<p>> \o r ELSE TryAlt(t, pat, i, p, j + 1)

\* re.search from position s on: the leftmost start that matches
RECURSIVE Search(_, _, _)
Search(t, pat, s) ==
  IF s > Len(t) + 1 THEN FAIL
  ELSE LET r == MatchAt(t, pat, 1, s)
       IN  IF r # FAIL THEN r ELSE Search(t, pat, s + 1)

\* match.group(g)
Group(t, pat, m, g) == SubSeq(t, m[pat.groups[g][1]], m[pat.groups[g][2] + 1] - 1)

MatchEnd(m) == m[Len(m)]

\* re.findall for an expression with one group: the group of each match, the
\* scan going on where the last match ended
RECURSIVE FindAll(_, _, _)
FindAll(t, pat, s) ==
  LET m == Search(t, pat, s)
  IN  IF m = FAIL THEN <<>>
      ELSE <<Group(t, pat, m, 1)>>
             \o FindAll(t, pat, IF MatchEnd(m) > m[1] THEN MatchEnd(m) ELSE MatchEnd(m) + 1)

\* ------------------------------------------------------------ parse_fields
DateSep == {SLASH, "-"}
AmountSet == Digits \cup {COMMA}
ColonSpace == {":"} \cup Spaces

\* line 122: \b(\d{1,2}[/-]\d{1,2}[/-]\d{4})\b
DateDMY ==
  [items |-> <<WB, Rep(Digits, 1, 2), One(DateSep), Rep(Digits, 1, 2), One(DateSep),
               Rep(Digits, 4, 4), WB>>,
   groups |-> <<<<2, 6>>>>, ci |-> TRUE]

\* line 123: \b(\d{4}[/-]\d{1,2}[/-]\d{1,2})\b
DateYMD ==
  [items |-> <<WB, Rep(Digits, 4, 4), One(DateSep), Rep(Digits, 1, 2), One(DateSep),
               Rep(Digits, 1, 2), WB>>,
   groups |-> <<<<2, 6>>>>, ci |-> TRUE]

\* line 124: \b(\d{1,2}\s+\w+\s+\d{4})\b
DateDMonthY ==
  [items |-> <<WB, Rep(Digits, 1, 2), Plus(Spaces), Plus(WordChars), Plus(Spaces),
               Rep(Digits, 4, 4), WB>>,
   groups |-> <<<<2, 6>>>>, ci |-> TRUE]

\* line 125: \b(\w+\s+\d{1,2},?\s+\d{4})\b
DateMonthDY ==
  [items |-> <<WB, Plus(WordChars), Plus(Spaces), Rep(Digits, 1, 2), Opt({COMMA}),
               Plus(Spaces), Rep(Digits, 4, 4), WB>>,
   groups |-> <<<<2, 7>>>>, ci |-> TRUE]

\* variant: the rules that name the month tried first
DatePatternsNamedFirst == <<DateDMonthY, DateMonthDY, DateDMY, DateYMD>>

date_patterns == <<DateDMY, DateYMD, DateDMonthY, DateMonthDY>>

\* the words of the expressions
AED == <<"A", "E", "D">>
TOTAL == <<"T", "O", "T", "A", "L">>
AMOUNT == <<"A", "M", "O", "U", "N", "T">>
GRAND == <<"G", "R", "A", "N", "D">>
SUM == <<"S", "U", "M">>

\* (\d{1,2}:\d{2}\s*(?:AM|PM|am|pm)?)
TimeItems ==
  <<Rep(Digits, 1, 2), One({":"}), Rep(Digits, 2, 2), Star(Spaces),
    AltOpt(<< <<"A", "M">>, <<"P", "M">>, <<"a", "m">>, <<"p", "m">> >>)>>

\* line 135, used at line 136 without flags
time_pattern == [items |-> TimeItems, groups |-> <<<<1, 5>>>>, ci |-> FALSE]

\* line 147, used at line 148 with re.IGNORECASE: time \s*[-to]+\s* time
time_range_pattern ==
  [items |-> TimeItems \o <<Star(Spaces), Plus({"-", "t", "o"}), Star(Spaces)>> \o TimeItems,
   groups |-> <<<<1, 5>>, <<9, 13>>>>, ci |-> TRUE]

\* ([\d,]+\.?\d*)
Amount == <<Plus(AmountSet), Opt({"."}), Star(Digits)>>

\* line 155: AED\s*([\d,]+\.?\d*)
TotalAedBefore ==
  [items |-> <<Lit(AED), Star(Spaces)>> \o Amount, groups |-> <<<<3, 5>>>>, ci |-> TRUE]

\* line 156: ([\d,]+\.?\d*)\s*AED
TotalAedAfter ==
  [items |-> Amount \o <<Star(Spaces), Lit(AED)>>, groups |-> <<<<1, 3>>>>, ci |-> TRUE]

\* line 157: TOTAL[:\s]+AED\s*([\d,]+\.?\d*)
TotalWithAed ==
  [items |-> <<Lit(TOTAL), Plus(ColonSpace), Lit(AED), Star(Spaces)>> \o Amount,
   groups |-> <<<<5, 7>>>>, ci |-> TRUE]

\* line 158: TOTAL[:\s]+([\d,]+\.?\d*)
TotalPlain ==
  [items |-> <<Lit(TOTAL), Plus(ColonSpace)>> \o Amount, groups |-> <<<<3, 5>>>>, ci |-> TRUE]

\* line 159: AMOUNT[:\s]+AED\s*([\d,]+\.?\d*)
AmountWithAed ==
  [items |-> <<Lit(AMOUNT), Plus(ColonSpace), Lit(AED), Star(Spaces)>> \o Amount,
   groups |-> <<<<5, 7>>>>, ci |-> TRUE]

\* line 160: GRAND\s+TOTAL[:\s]+([\d,]+\.?\d*)
GrandTotal ==
  [items |-> <<Lit(GRAND), Plus(Spaces), Lit(TOTAL), Plus(ColonSpace)>> \o Amount,
   groups |-> <<<<5, 7>>>>, ci |-> TRUE]

\* line 161: (?:TOTAL|AMOUNT|SUM)[:\s]*\$?([\d,]+\.?\d*)
TotalGeneric ==
  [items |-> <<Alt(<<TOTAL, AMOUNT, SUM>>), Star(ColonSpace), Opt({"$"})>> \o Amount,
   groups |-> <<<<4, 6>>>>, ci |-> TRUE]

\* variant: the generic rule tried first
TotalPatternsGenericFirst ==
  <<TotalGeneric, TotalAedBefore, TotalAedAfter, TotalWithAed, TotalPlain, AmountWithAed,
    GrandTotal>>

\* lines 154-162
total_patterns ==
  <<TotalAedBefore, TotalAedAfter, TotalWithAed, TotalPlain, AmountWithAed, GrandTotal,
    TotalGeneric>>

\* line 182: \b(\d+\.?\d{0,2})\b
price_pattern ==
  [items |-> <<WB, Plus(Digits), Opt({"."}), Rep(Digits, 0, 2), WB>>,
   groups |-> <<<<2, 4>>>>, ci |-> FALSE]

\* lines 128-132: the first expression, in the order of the list, that is found
RECURSIVE DateCascade(_, _)
DateCascade(t, k) ==
  IF k > Len(date_patterns) THEN NULL
  ELSE LET m == Search(t, date_patterns[k], 1)
       IN  IF m # FAIL THEN Group(t, date_patterns[k], m, 1) ELSE DateCascade(t, k + 1)

\* lines 136-151: the first two of findall, overwritten by the range when the
\* range expression is found
TimeFields(t) ==
  LET time_matches == FindAll(t, time_pattern, 1)
      range_match == Search(t, time_range_pattern, 1)
  IN  IF range_match # FAIL
      THEN [start_time |-> Group(t, time_range_pattern, range_match, 1),
            end_time |-> Group(t, time_range_pattern, range_match, 2)]
      ELSE IF Len(time_matches) >= 2
      THEN [start_time |-> time_matches[1], end_time |-> time_matches[2]]
      ELSE IF Len(time_matches) = 1
      THEN [start_time |-> time_matches[1], end_time |-> NULL]
      ELSE [start_time |-> NULL, end_time |-> NULL]

\* match.group(1).replace(',', '')
NotComma(ch) == ch # COMMA
RemoveCommas(w) == SelectSeq(w, NotComma)

\* float(w) returns for a decimal literal: digits with at most one point
IsFloat(w) ==
  /\ \A i \in 1..Len(w) : w[i] \in Digits \cup {"."}
  /\ \E i \in 1..Len(w) : w[i] \in Digits
  /\ Cardinality({i \in 1..Len(w) : w[i] = "."}) <= 1

\* variant: no handler around float()
ValueErrorPropagates == FALSE

\* lines 176-177: except ValueError: continue
ValueErrorCaught == TRUE

\* lines 164-177: the first expression of the list whose group converts
RECURSIVE TotalCascade(_, _)
TotalCascade(t, k) ==
  IF k > Len(total_patterns) THEN [raised |-> FALSE, total |-> NULL]
  ELSE LET m == Search(t, total_patterns[k], 1)
           total_str == RemoveCommas(Group(t, total_patterns[k], m, 1))
       IN  IF m = FAIL THEN TotalCascade(t, k + 1)
           ELSE IF IsFloat(total_str) THEN [raised |-> FALSE, total |-> total_str]
           ELSE IF ValueErrorCaught THEN TotalCascade(t, k + 1)
           ELSE [raised |-> TRUE, total |-> NULL]

\* numbers are counted in hundredths: the tokens of price_pattern have at most
\* two digits after the point
DigitChars == <<"0", "1", "2", "3", "4", "5", "6", "7", "8", "9">>
DigitValue(ch) == (CHOOSE i \in 1..Len(DigitChars) : DigitChars[i] = ch) - 1

RECURSIVE IntValue(_, _)
IntValue(ds, acc) ==
  IF ds = <<>> THEN acc ELSE IntValue(Tail(ds), acc * 10 + DigitValue(Head(ds)))

\* float(p) of a token of price_pattern
FloatOf(w) ==
  LET dots == {i \in 1..Len(w) : w[i] = "."}
      d == IF dots = {} THEN Len(w) + 1 ELSE CHOOSE i \in dots : TRUE
      frac == SubSeq(w, d + 1, Len(w))
  IN  IntValue(SubSeq(w, 1, d - 1), 0) * 100
        + (IF Len(frac) = 1 THEN IntValue(frac, 0) * 10 ELSE IntValue(frac, 0))

RECURSIVE IntStr(_)
IntStr(n) ==
  IF n < 10 THEN <<DigitChars[n + 1]>> ELSE IntStr(n \div 10) \o <<DigitChars[(n % 10) + 1]>>

\* str(x) of a float: the shortest digits that give x back, at least one
\* after the point
PyStr(h) ==
  IntStr(h \div 100) \o <<".">>
    \o (IF h % 10 = 0 THEN <<DigitChars[((h % 100) \div 10) + 1]>>
        ELSE <<DigitChars[((h % 100) \div 10) + 1], DigitChars[(h % 10) + 1]>>)

Positive(w) == FloatOf(w) > 0

\* lines 180-191: the largest positive price-like number of the text
TotalFallback(t) ==
  LET prices == FindAll(t, price_pattern, 1)
      numeric_prices == SelectSeq(prices, Positive)
      top == CHOOSE i \in 1..Len(numeric_prices) :
               \A j \in 1..Len(numeric_prices) :
                 FloatOf(numeric_prices[j]) <= FloatOf(numeric_prices[i])
  IN  IF numeric_prices = <<>> THEN NULL ELSE PyStr(FloatOf(numeric_prices[top]))

\* lines 102-193
parse_fields(t) ==
  LET tf == TimeFields(t)
      tc == TotalCascade(t, 1)
  IN  [raised |-> tc.raised,
       fields |-> [date |-> DateCascade(t, 1),
                   start_time |-> tf.start_time,
                   end_time |-> tf.end_time,
                   total |-> IF tc.total # NULL THEN tc.total ELSE TotalFallback(t)]]

\* ------------------------------------------------- the inputs of parse_fields
\* extract_blocks returns the detected lines joined by newlines; the texts are
\* all sequences of up to MaxLines lines of one of four vocabularies
MaxLines == 2

\* lines with dates of the four forms, and words
DateLines ==
  { <<"2", "4", SLASH, "0", "9", SLASH, "2", "0", "2", "4">>,
    <<"2", "0", "2", "4", "-", "0", "9", "-", "2", "4">>,
    <<"2", "4", " ", "S", "e", "p", "t", "e", "m", "b", "e", "r", " ", "2", "0", "2", "4">>,
    <<"S", "e", "p", "t", "e", "m", "b", "e", "r", " ", "2", "4", COMMA, " ", "2", "0", "2", "4">>,
    <<"1", "2", " ", "i", "t", "e", "m", "s", " ", "2", "0", "2", "4">>,
    <<"i", "t", "e", "m", "s">> }

\* lines with times and ranges of times
TimeLines ==
  { <<"9", ":", "0", "0", " ", "A", "M", " ", "t", "o", " ", "5", ":", "0", "0", " ", "P", "M">>,
    <<"1", "0", ":", "3", "0", " ", "-", " ", "1", "1", ":", "4", "5">>,
    <<"9", ":", "1", "5", " ", "A", "M">>,
    <<"8", ":", "0", "0">>,
    <<"8", ":", "0", "0", " ", "A", "m">>,
    <<"9", ":", "0", "0", " ", "o", " ", "5", ":", "0", "0">>,
    <<"c", "l", "o", "s", "e", "d">> }

\* lines with amounts, with and without the words of the total expressions
TotalLines ==
  { <<"T", "O", "T", "A", "L", ":", " ", "A", "E", "D", " ", "1", "2", "3", ".", "4", "0">>,
    <<"5", "0", "0">>,
    <<"7", "5", " ", "A", "E", "D">>,
    <<"T", "O", "T", "A", "L", ":", " ", "9", "9", ".", "5">>,
    <<"A", "M", "O", "U", "N", "T", ":", " ", "A", "E", "D", " ", "1", "0">>,
    <<"G", "R", "A", "N", "D", " ", "T", "O", "T", "A", "L", ":", " ", "1", COMMA, "2", "3", "4", ".", "5", "0">>,
    <<"S", "U", "M", " ", "$", "7">>,
    <<"A", "E", "D", " ", COMMA>>,
    <<"T", "O", "T", "A", "L", " ", COMMA>>,
    <<"4", ".", "5", "0", " ", "3", ".", "2", "5", " ", "1", ".", "0", "0">>,
    <<"0">> }

\* lines of several kinds
MixedLines ==
  { <<"2", "4", SLASH, "0", "9", SLASH, "2", "0", "2", "4">>,
    <<"9", ":", "1", "5", " ", "A", "M">>,
    <<"T", "O", "T", "A", "L", ":", " ", "9", "9", ".", "5">>,
    <<"A", "E", "D", " ", COMMA>> }

\* '\n'.join(all_text_lines)
RECURSIVE JoinLines(_)
JoinLines(ls) ==
  IF ls = <<>> THEN <<>>
  ELSE IF Len(ls) = 1 THEN ls[1]
  ELSE ls[1] \o <<LF>> \o JoinLines(Tail(ls))

ParseTexts ==
  {JoinLines(ls) : ls \in SeqsUpTo(DateLines, MaxLines) \cup SeqsUpTo(TimeLines, MaxLines)
                          \cup SeqsUpTo(TotalLines, MaxLines) \cup SeqsUpTo(MixedLines, MaxLines)}

InitParse ==
  /\ SinkInit
  /\ NoCall
  /\ arg \in ParseTexts

ParseFields ==
  /\ op = "none"
  /\ op' = "parse_fields"
  /\ ret' = parse_fields(arg)
  /\ UNCHANGED <<arg, sinkVars>>

NextParse == ParseFields

SpecParse == InitParse /\ [][NextParse]_vars

Parsed == op = "parse_fields"

\* ------------------------------------------------ what an expression matches
\* Every match of the items from i on at p, whatever a backtracking search
\* would try first: the positions of the items, then the end.
RECURSIVE AllPaths(_, _, _, _)
AllPaths(t, pat, i, p) ==
  IF i > Len(pat.items) THEN {<<p>>}
  ELSE LET it == pat.items[i]
           ends == IF it.kind = "wb" THEN (IF Boundary(t, p) THEN {p} ELSE {})
                   ELSE IF it.kind = "set"
                        THEN {p + k : k \in it.min..RunLen(t, it, pat.ci, p, 0)}
                   ELSE {p + Len(it.alts[j]) :
                           j \in {j \in 1..Len(it.alts) : StartsWith(t, p, it.alts[j], pat.ci)}}
                        \cup (IF it.min = 0 THEN {p} ELSE {})
       IN  UNION {{<<p>> \o r : r \in AllPaths(t, pat, i + 1, q)} : q \in ends}

AllMatches(t, pat) == UNION {AllPaths(t, pat, 1, s) : s \in 1..Len(t) + 1}
Matches(t, pat) == AllMatches(t, pat) # {}
Captures(t, pat, g) == {Group(t, pat, m, g) : m \in AllMatches(t, pat)}

\* ---------------------------------------------------------------- C13
\* a value: a text that is not empty
IsValue(v) == v # NULL /\ Len(v) >= 1
ValueOrAbsent(v) == v = NULL \/ IsValue(v)

\* two times that do not overlap
TwoTimes(t) ==
  \E m, n \in AllMatches(t, time_pattern) : MatchEnd(m) <= n[1]

MonthNames ==
  << <<"J", "a", "n", "u", "a", "r", "y">>,
     <<"F", "e", "b", "r", "u", "a", "r", "y">>,
     <<"M", "a", "r", "c", "h">>,
     <<"A", "p", "r", "i", "l">>,
     <<"M", "a", "y">>,
     <<"J", "u", "n", "e">>,
     <<"J", "u", "l", "y">>,
     <<"A", "u", "g", "u", "s", "t">>,
     <<"S", "e", "p", "t", "e", "m", "b", "e", "r">>,
     <<"O", "c", "t", "o", "b", "e", "r">>,
     <<"N", "o", "v", "e", "m", "b", "e", "r">>,
     <<"D", "e", "c", "e", "m", "b", "e", "r">> >>

\* day month-name year, and month-name day[,] year
DayMonthNameYear ==
  [items |-> <<WB, Rep(Digits, 1, 2), Plus(Spaces), Alt(MonthNames), Plus(Spaces),
               Rep(Digits, 4, 4), WB>>,
   groups |-> <<<<2, 6>>>>, ci |-> TRUE]
MonthNameDayYear ==
  [items |-> <<WB, Alt(MonthNames), Plus(Spaces), Rep(Digits, 1, 2), Opt({COMMA}),
               Plus(Spaces), Rep(Digits, 4, 4), WB>>,
   groups |-> <<<<2, 7>>>>, ci |-> TRUE]

\* the four date forms in the order of their priority
DateForms == <<DateDMY, DateYMD, DayMonthNameYear, MonthNameDayYear>>
FormsFound(t) == {k \in 1..Len(DateForms) : Matches(t, DateForms[k])}
FirstForm(t) == CHOOSE k \in FormsFound(t) : \A j \in FormsFound(t) : k <= j

\* C14: the date is a match of the first form, in the order of priority
\* day/month/year, year/month/day, day month-name year, month-name day[,] year,
\* that occurs anywhere in the text, wherever the other forms occur; it is
\* absent when no form occurs.
C14_DateByPriority ==
  Parsed =>
    IF FormsFound(arg) = {} THEN ret.fields.date = NULL
    ELSE ret.fields.date \in Captures(arg, DateForms[FirstForm(arg)], 1)

\* The same with the third and fourth form as the code writes them, any word
\* where the month stands: the order of the expressions decides, not the place.
DateByPriorityOfExpressions ==
  Parsed =>
    LET found == {k \in 1..4 : Matches(arg, date_patterns[k])}
        first == CHOOSE k \in found : \A j \in found : k <= j
    IN  IF found = {} THEN ret.fields.date = NULL
        ELSE ret.fields.date \in Captures(arg, date_patterns[first], 1)

\* C20: a date that is not of the two numeric forms is a day, a month name
\* and a year, in one of the two orders.
C20_MonthIsNamed ==
  (Parsed /\ ret.fields.date # NULL /\ ~Matches(arg, DateDMY) /\ ~Matches(arg, DateYMD)) =>
    ret.fields.date \in Captures(arg, DayMonthNameYear, 1) \cup Captures(arg, MonthNameDayYear, 1)

\* ---------------------------------------------------------------- C15
\* a range as the claim describes it: a time, a dash or the word "to", a time
TimeRange ==
  [items |-> TimeItems \o <<Star(Spaces), Alt(<< <<"-">>, <<"t", "o">> >>), Star(Spaces)>>
               \o TimeItems,
   groups |-> <<<<1, 5>>, <<9, 13>>>>, ci |-> TRUE]

\* C15: when a range occurs in the text, start_time and end_time are the two
\* times of a range, whatever the times found one by one and wherever the range
\* stands; otherwise they are the first and the second time found, or the only
\* one and absent, or both absent.
C15_RangeFirst ==
  Parsed =>
    LET times == FindAll(arg, time_pattern, 1)
    IN  IF Matches(arg, TimeRange)
        THEN \E m \in AllMatches(arg, TimeRange) :
               /\ ret.fields.start_time = Group(arg, TimeRange, m, 1)
               /\ ret.fields.end_time = Group(arg, TimeRange, m, 2)
        ELSE /\ ret.fields.start_time = (IF Len(times) >= 1 THEN times[1] ELSE NULL)
             /\ ret.fields.end_time = (IF Len(times) >= 2 THEN times[2] ELSE NULL)

\* ---------------------------------------------------------------- C16
\* the total forms in the order of their priority: currency before the amount,
\* currency after it, TOTAL: currency amount, TOTAL: amount, AMOUNT: currency
\* amount, GRAND TOTAL: amount, and TOTAL, AMOUNT or SUM before an amount
TotalForms ==
  <<TotalAedBefore, TotalAedAfter, TotalWithAed, TotalPlain, AmountWithAed, GrandTotal,
    TotalGeneric>>

\* what a form captures: the amount of its first occurrence, taken whole
FormCapture(t, pat) ==
  LET all == AllMatches(t, pat)
      first == {m \in all : \A n \in all : m[1] <= n[1]}
      whole == CHOOSE m \in first : \A n \in first : MatchEnd(n) <= MatchEnd(m)
  IN  RemoveCommas(Group(t, pat, whole, 1))

\* the forms that occur with an amount that is a decimal number
FormsWithNumber(t) ==
  {k \in 1..Len(TotalForms) : Matches(t, TotalForms[k]) /\ IsFloat(FormCapture(t, TotalForms[k]))}

\* C16: when some total form occurs with an amount that is a decimal number,
\* the total is the amount, its thousands separators removed, of the first
\* such form in the order of priority: a form whose amount is not a number
\* counts as absent, and numbers that stand elsewhere in the text play no part.
C16_TotalByPriority ==
  Parsed =>
    LET found == FormsWithNumber(arg)
        k == CHOOSE k \in found : \A j \in found : k <= j
    IN  found # {} => ret.fields.total = FormCapture(arg, TotalForms[k])

\* TOTAL: AED 123.40 in a text that also holds the number 500: the total is
\* 123.40
C16_Witness ==
  /\ Parsed
  /\ Matches(arg, TotalWithAed)
  /\ <<"5", "0", "0">> \in Captures(arg, price_pattern, 1)
  /\ ret.fields.total = <<"1", "2", "3", ".", "4", "0">>

\* a form whose amount is a lone comma, and a later form that gives the total
C16_WitnessSkipped ==
  /\ Parsed
  /\ \E j, k \in 1..Len(TotalForms) :
       /\ j < k
       /\ Matches(arg, TotalForms[j]) /\ ~IsFloat(FormCapture(arg, TotalForms[j]))
       /\ k \in FormsWithNumber(arg)
       /\ \A i \in FormsWithNumber(arg) : k <= i
       /\ ret.fields.total = FormCapture(arg, TotalForms[k])

\* ---------------------------------------------------------------- C17
\* the bare decimal tokens of the text that are positive numbers
PositiveTokens(t) ==
  LET prices == FindAll(t, price_pattern, 1)
  IN  {prices[i] : i \in {i \in 1..Len(prices) : FloatOf(prices[i]) > 0}}

\* C17: when no total form gives a number, the total is the bare decimal token
\* of the text with the greatest positive value, as the text writes it, and it
\* is absent when the text has no positive token.
C17_LargestToken ==
  (Parsed /\ FormsWithNumber(arg) = {}) =>
    IF PositiveTokens(arg) = {} THEN ret.fields.total = NULL
    ELSE /\ ret.fields.total \in PositiveTokens(arg)
         /\ \A w \in PositiveTokens(arg) : FloatOf(w) <= FloatOf(ret.fields.total)

\* The same for the value alone: the total is a numeral of the greatest
\* positive value among the tokens, in the digits str() gives it.
LargestTokenValue ==
  (Parsed /\ FormsWithNumber(arg) = {}) =>
    IF PositiveTokens(arg) = {} THEN ret.fields.total = NULL
    ELSE /\ ret.fields.total # NULL
         /\ \E v \in PositiveTokens(arg) : FloatOf(v) = FloatOf(ret.fields.total)
         /\ \A w \in PositiveTokens(arg) : FloatOf(w) <= FloatOf(ret.fields.total)

\* ---------------------------------------------------------------- C21
\* the tags whose text the record is made of
ReadTags == {"VENDOR_NAME", "TOTAL", "INVOICE_RECEIPT_DATE", "ITEM", "PRICE"}

Restrict(f, K) == [k \in DOMAIN f \cap K |-> f[k]]

Tagged(f) == "Type" \in DOMAIN f /\ "Text" \in DOMAIN f.Type /\ f.Type.Text \in ReadTags

\* a field list without the fields of other tags, every field left with its
\* tag and its detected text only
TextOfTagged(fs) ==
  LET kept == SelectSeq(fs, Tagged)
  IN  [i \in 1..Len(kept) |->
         [k \in DOMAIN kept[i] \cap {"Type", "ValueDetection"} |-> Restrict(kept[i][k], {"Text"})]]

ItemReduced(li) == [k \in DOMAIN li \cap {"LineItemExpenseFields"} |-> TextOfTagged(li[k])]

GroupReduced(g) ==
  [k \in DOMAIN g \cap {"LineItems"} |-> [i \in 1..Len(g[k]) |-> ItemReduced(g[k][i])]]

DocReduced(doc) ==
  [k \in DOMAIN doc \cap {"SummaryFields", "LineItemGroups"} |->
     IF k = "SummaryFields" THEN TextOfTagged(doc[k])
     ELSE [i \in 1..Len(doc[k]) |-> GroupReduced(doc[k][i])]]

\* a response without its fields of other tags, its confidence scores and its
\* unknown keys
Reduced(data) ==
  [k \in DOMAIN data \cap {"ExpenseDocuments"} |->
     [i \in 1..Len(data[k]) |-> DocReduced(data[k][i])]]

\* vendor, total, date and line items of a record
Core(r) == <<r.vendor_name, r.total, r.date, r.items>>

Flatten(o, name, data) ==
  IF o = "extract_data_from_json" THEN extract_data_from_json(name, data)
  ELSE DownloadRecord(name, data)

\* the responses as the service returns them
DetectedInputs == {d \in FlatInputs : "DocumentMetadata" \in DOMAIN d}

\* C21: vendor, total, date and line items of the flattened record are those
\* flattened from the response with every field of another tag, every
\* confidence score and every unknown key removed; and every response that
\* differs from the flattened one in nothing but these flattens to the same
\* vendor, total, date and line items.
C21_OnlyTaggedText ==
  Flattened =>
    /\ Core(ret) = Core(Flatten(op, arg.name, Reduced(arg.data)))
    /\ arg.data \in DetectedInputs =>
         \A d \in DetectedInputs :
           Reduced(d) = Reduced(arg.data) => Core(Flatten(op, arg.name, d)) = Core(ret)

\* a response with an unknown key, a TAX field and a vendor name and an item
\* name of confidence 10 is flattened to that vendor and that item, and another
\* response differs from it in nothing but such content
C21_Witness ==
  /\ op = "extract_data_from_json"
  /\ "DocumentMetadata" \in DOMAIN arg.data
  /\ \E f \in DetectedFieldSet :
       /\ arg.data.ExpenseDocuments[1].SummaryFields = <<f>>
       /\ f.Type.Text = "VENDOR_NAME" /\ f.ValueDetection.Confidence = 10
       /\ ret.vendor_name = f.ValueDetection.Text
  /\ "LineItemGroups" \in DOMAIN arg.data.ExpenseDocuments[1]
  /\ \E li \in DetectedItems :
       /\ arg.data.ExpenseDocuments[1].LineItemGroups[1].LineItems = <<li>>
       /\ li.LineItemExpenseFields[1].ValueDetection.Confidence = 10
       /\ li.LineItemExpenseFields[2].Type.Text = "QUANTITY"
       /\ ret.items = <<[item |-> li.LineItemExpenseFields[1].ValueDetection.Text, price |-> ""]>>
  /\ \E d \in DetectedInputs : d # arg.data /\ Reduced(d) = Reduced(arg.data)

\* ---------------------------------------------------------------- C22
\* a call is inside the region from its existence test (line 41) on, through
\* the open, the header and the rows, until the last line it handed to the
\* file object has reached the file
InRegion(c) ==
  \/ pc[c] \in {"open", "lock", "header", "rows"}
  \/ pc[c] \in {"unlock", "close"} /\ buf[c] # <<>>

RegionUnderLock == \A c \in Calls : InRegion(c) => lockHolder = c

RegionExclusive == \A c, d \in Calls : (InRegion(c) /\ InRegion(d)) => c = d

\* C22: a call that has tested whether the file exists and has not yet got
\* every line it wrote into the file holds the exclusive lock, and no two calls
\* are in that region at the same time.
C22_RegionUnderLock ==
  /\ RegionUnderLock
  /\ RegionExclusive

\* two calls in the region at once, one of them past its unlock with a line
\* still to reach the file, the other holding the lock
RegionOverlap ==
  \E c, d \in Calls :
    /\ pc[c] = "close" /\ buf[c] # <<>>
    /\ lockHolder = d /\ pc[d] \in {"header", "rows"}

\* ---------------------------------------------------------------- C23
\* the summary fields of the sub-documents, in the order of the scan
RECURSIVE AllSummaryFields(_, _)
AllSummaryFields(ds, i) ==
  IF i > Len(ds) THEN <<>>
  ELSE PyGet(ds[i], "SummaryFields", EmptyList) \o AllSummaryFields(ds, i + 1)

\* the line items of the sub-documents, in the order of the scan
RECURSIVE AllInputItems(_, _)
AllInputItems(ds, i) ==
  IF i > Len(ds) THEN <<>>
  ELSE InputItems(PyGet(ds[i], "LineItemGroups", EmptyList), 1) \o AllInputItems(ds, i + 1)

RecordKeys == {"filename", "vendor_name", "total", "date", "items", "processed_at"}

\* C23: the scan ends with a record, whatever tags occur twice; its vendor
\* name, total and date are the detected text of the last summary field tagged
\* VENDOR_NAME, TOTAL and INVOICE_RECEIPT_DATE, "" when there is none; and name
\* and price of each item of the record are the text of the last ITEM field and
\* of the last PRICE field of the line item it was made from.
C23_LastWriteWins ==
  Flattened =>
    LET sf == AllSummaryFields(SubDocs, 1)
        made == SelectSeq(AllInputItems(SubDocs, 1), HasNameOrPrice)
    IN  /\ DOMAIN ret = RecordKeys
        /\ ret.vendor_name = LastText(sf, "VENDOR_NAME")
        /\ ret.total = LastText(sf, "TOTAL")
        /\ ret.date = LastText(sf, "INVOICE_RECEIPT_DATE")
        /\ Len(ret.items) = Len(made)
        /\ \A i \in 1..Len(made) :
             /\ ret.items[i].item = LastText(FieldsOf(made[i]), "ITEM")
             /\ ret.items[i].price = LastText(FieldsOf(made[i]), "PRICE")

\* VENDOR_NAME twice among the summary fields, A then B, and ITEM twice in the
\* line item, x then y: the record holds B and y
C23_Witness ==
  /\ Flattened /\ Len(SubDocs) = 1
  /\ LET sf == PyGet(SubDocs[1], "SummaryFields", EmptyList)
         ls == InputItems(PyGet(SubDocs[1], "LineItemGroups", EmptyList), 1)
     IN  /\ Len(sf) = 3 /\ Len(ls) = 1
         /\ FieldType(sf[1]) = "VENDOR_NAME" /\ FieldValue(sf[1]) = "A"
         /\ FieldType(sf[3]) = "VENDOR_NAME" /\ FieldValue(sf[3]) = "B"
         /\ FieldsOf(ls[1]) = <<Field("ITEM", "x"), Field("ITEM", "y")>>
  /\ ret.vendor_name = "B"
  /\ ret.items = <<[item |-> "y", price |-> ""]>>

====
